---------------------------- MODULE Spec2Model ----------------------------
(***************************************************************************)
(* Quote-to-job lifecycle of tradeops-mobile.                              *)
(*                                                                         *)
(* The repository holds several independent programs over the same idea.   *)
(* Each one is modelled with its own state and its own specification:      *)
(*   SpecMain   main.py            (FastAPI + sqlite, quote row = job row) *)
(*   SpecMock   app.py             (Dash quote builder over MockDB)        *)
(*   SpecV3     tradeops_v3_db.py  (sqlite, used by startup_app.py)        *)
(*   SpecSdb    startup_db.py      (SQLAlchemy engine, one commit/query)   *)
(*   SpecCrud   crud.py            (SQLAlchemy ORM session, no autoflush)  *)
(*   SpecV3Race tradeops_v3_db.py  (two update calls, statement by         *)
(*                                  statement, under sqlite's write lock)  *)
(*   SpecCrudRace crud.py          (two update_quote requests, statement   *)
(*                                  by statement, read committed)          *)
(*   SpecMockRace app.py           (two MockDB.save_quote calls on threads *)
(*                                  of one server process)                 *)
(* A specification leaves the variables of the other programs unchanged.   *)
(***************************************************************************)
EXTENDS Integers, Sequences, FiniteSets, TLC

VARIABLES
    main_quotes,      \* main.py: rows of table quotes
    mock_quotes,      \* app.py: db.quotes, a list of dicts
    quote_state,      \* app.py: the dcc.Store "quote-state" of the builder
    v3_quotes,        \* tradeops_v3_db.py: rows of table quotes
    v3_quote_items,   \* tradeops_v3_db.py: rows of quote_items, in id order
    v3_calls,         \* tradeops_v3_db.py: update_existing_quote calls in progress
    crud_quotes,      \* crud.py: rows of table quotes
    crud_line_items,  \* crud.py: rows of table quote_line_items
    crud_calls,       \* crud.py: update_quote calls in progress, one session each
    mock_calls,       \* app.py: MockDB.save_quote calls in progress, one thread each
    edit_mode_store,  \* startup_app.py: dcc.Store "edit-mode-store"
    sdb_quotes,       \* startup_db.py: rows of table quotes
    sdb_quote_items,  \* startup_db.py: rows of quote_items, in id order
    last              \* the last call: operation, arguments, outcome

vars == <<main_quotes, mock_quotes, quote_state, v3_quotes, v3_quote_items,
          v3_calls, crud_quotes, crud_line_items, crud_calls, mock_calls,
          edit_mode_store, sdb_quotes, sdb_quote_items, last>>

main_vars == <<main_quotes>>
mock_vars == <<mock_quotes, quote_state>>
v3_vars   == <<v3_quotes, v3_quote_items>>
sdb_vars  == <<sdb_quotes, sdb_quote_items>>
call_vars == <<v3_calls, crud_calls, mock_calls, edit_mode_store>>
crud_vars == <<crud_quotes, crud_line_items>>

(***************************************************************************)
(* Bounds and shared helpers                                               *)
(***************************************************************************)
\* longest line-item list a caller sends
MaxItems == 2

NULL == "NULL"

\* the first n picks of a cart that cycles through a catalogue
Cycle(catalogue, n) ==
    [i \in 1..n |-> catalogue[((i - 1) % Len(catalogue)) + 1]]

CartsOf(catalogue) == {Cycle(catalogue, n) : n \in 0..MaxItems}

RECURSIVE SelectRows(_, _)
\* the rows of a table (in id order) that belong to a quote
SelectRows(rows, quote_id) ==
    IF rows = <<>> THEN <<>>
    ELSE IF rows[1].quote_id = quote_id
         THEN <<rows[1]>> \o SelectRows(Tail(rows), quote_id)
         ELSE SelectRows(Tail(rows), quote_id)

\* a DELETE that removes nothing
KeepRows(rows, quote_id) == rows

RECURSIVE DeleteRows(_, _)
\* DELETE FROM <table> WHERE quote_id=?
DeleteRows(rows, quote_id) ==
    IF rows = <<>> THEN <<>>
    ELSE IF rows[1].quote_id = quote_id
         THEN DeleteRows(Tail(rows), quote_id)
         ELSE <<rows[1]>> \o DeleteRows(Tail(rows), quote_id)

RECURSIVE SumOver(_, _, _)
\* Python's sum(f(i) for i in items), f given by the two field names
SumOver(items, a, b) ==
    IF items = <<>> THEN 0
    ELSE items[1][a] * items[1][b] + SumOver(Tail(items), a, b)

\* two callbacks (requests) running at the same time
Callers == {"callback-1", "callback-2"}

\* prev: the status the addressed document had before the call, NULL if absent
NoCall == [op |-> "init", id |-> "", arg |-> "", prev |-> NULL, err |-> "none"]

(***************************************************************************)
(* main.py                                                                 *)
(***************************************************************************)
\* QuoteItem values a client sends (id, qty, price; the name follows the id)
MainItems == <<[id |-> "P-101", qty |-> 2, price |-> 100],
              [id |-> "L-001", qty |-> 1, price |-> 50]>>

\* longest item list a client of main.py posts
MaxMainItems == 1

MainItemLists == {Cycle(MainItems, n) : n \in 0..MaxMainItems}

\* values random.randint(1000, 9999) yields in "Q-<n>"
MainIds == {"Q-1001", "Q-1002"}

\* customers.id values a client sends
MainCustomers == {"C-10001"}

\* StatusUpdate.status values a client sends
MainStatusInputs == {"Draft", "Approved"}

\* AssignRequest.tech_username values a client sends (users are seeded with
\* admin/admin, tech/tech, mike/tech); the field is any str, the empty one
\* included
MainTechInputs == {"tech", "admin", ""}

MainDates == {"2025-01-10"}

MainNotes == {"done"}

\* statuses under which a row of quotes is a job: the dashboard's active jobs
\* and the dispatch lists (Approved: unscheduled; others: scheduled/closed)
JobStatuses == {"Approved", "Scheduled", "In Progress", "Completed"}

\* rows of table users as init_db seeds them
MainUsers == {[username |-> "admin", role |-> "admin"],
              [username |-> "tech", role |-> "tech"],
              [username |-> "mike", role |-> "tech"]}

main_total(items) == SumOver(items, "qty", "price")

\* QuoteIn.total / JobCompletion.total: the caller's own number
MainTotalInputs(items) == {main_total(items), 5}

\* INSERT INTO quotes: id is the PRIMARY KEY, execute_db rolls back and
\* re-raises when the statement fails
SqlInsertNoPrimaryKey(table, row) ==
    [table |-> table \cup {row}, err |-> "none"]

SqlInsert(table, row) ==
    IF \E r \in table : r.id = row.id
    THEN [table |-> table, err |-> "IntegrityError"]
    ELSE [table |-> table \cup {row}, err |-> "none"]

MainFound(id) == \E r \in main_quotes : r.id = id

MainStatusOf(id) ==
    IF MainFound(id) THEN (CHOOSE r \in main_quotes : r.id = id).status ELSE NULL

main_save_quote(customer_id, items, total, new_id) ==
    LET row == [id |-> new_id, customer_id |-> customer_id, status |-> "Draft",
                items |-> items, total |-> total, notes |-> "",
                scheduled_date |-> NULL, tech |-> NULL]
        res == SqlInsert(main_quotes, row)
    IN  /\ main_quotes' = res.table
        /\ last' = [op |-> "save_quote", id |-> new_id, arg |-> "",
                    prev |-> MainStatusOf(new_id), err |-> res.err]
        /\ UNCHANGED <<crud_vars, call_vars, mock_vars, v3_vars, sdb_vars>>

\* UPDATE quotes SET status=? WHERE id=?
UpdateStatusKeepsOld(table, id, status) == table

UpdateStatus(table, id, status) ==
    {IF r.id = id THEN [r EXCEPT !.status = status] ELSE r : r \in table}

update_quote_status(id, status) ==
    /\ main_quotes' = UpdateStatus(main_quotes, id, status)
    /\ last' = [op |-> "update_quote_status", id |-> id, arg |-> status,
                prev |-> MainStatusOf(id), err |-> "none"]
    /\ UNCHANGED <<crud_vars, call_vars, mock_vars, v3_vars, sdb_vars>>

\* an assignment that refuses a technician already booked on that date
assign_job_checks_booking(quote_id, tech_username, scheduled_date) ==
    LET booked == \E r \in main_quotes :
                      /\ r.id # quote_id /\ r.tech = tech_username
                      /\ r.scheduled_date = scheduled_date
    IN  /\ main_quotes' =
             {IF r.id = quote_id /\ ~booked
              THEN [r EXCEPT !.tech = tech_username,
                             !.scheduled_date = scheduled_date,
                             !.status = "Scheduled"]
              ELSE r : r \in main_quotes}
        /\ last' = [op |-> "assign_job", id |-> quote_id, arg |-> tech_username,
                    prev |-> MainStatusOf(quote_id),
                    err |-> IF booked THEN "Conflict" ELSE "none"]
        /\ UNCHANGED <<crud_vars, call_vars, mock_vars, v3_vars, sdb_vars>>

\* an assignment that records the technician and leaves the status alone
assign_job_keeps_status(quote_id, tech_username, scheduled_date) ==
    /\ main_quotes' =
         {IF r.id = quote_id
          THEN [r EXCEPT !.tech = tech_username,
                         !.scheduled_date = scheduled_date]
          ELSE r : r \in main_quotes}
    /\ last' = [op |-> "assign_job", id |-> quote_id, arg |-> tech_username,
                prev |-> MainStatusOf(quote_id), err |-> "none"]
    /\ UNCHANGED <<crud_vars, call_vars, mock_vars, v3_vars, sdb_vars>>

\* UPDATE quotes SET tech=?, scheduled_date=?, status='Scheduled' WHERE id=?
assign_job(quote_id, tech_username, scheduled_date) ==
    /\ main_quotes' =
         {IF r.id = quote_id
          THEN [r EXCEPT !.tech = tech_username,
                         !.scheduled_date = scheduled_date,
                         !.status = "Scheduled"]
          ELSE r : r \in main_quotes}
    /\ last' = [op |-> "assign_job", id |-> quote_id, arg |-> tech_username,
                prev |-> MainStatusOf(quote_id), err |-> "none"]
    /\ UNCHANGED <<crud_vars, call_vars, mock_vars, v3_vars, sdb_vars>>

\* UPDATE quotes SET items_json=?, total=?, notes=?, status='Completed' WHERE id=?
complete_job(job_id, final_items, total, notes) ==
    /\ main_quotes' =
         {IF r.id = job_id
          THEN [r EXCEPT !.items = final_items, !.total = total,
                         !.notes = notes, !.status = "Completed"]
          ELSE r : r \in main_quotes}
    /\ last' = [op |-> "complete_job", id |-> job_id, arg |-> "",
                prev |-> MainStatusOf(job_id), err |-> "none"]
    /\ UNCHANGED <<crud_vars, call_vars, mock_vars, v3_vars, sdb_vars>>

\* get_dispatch_data, "unscheduled": quotes joined with customers
\* WHERE q.status = 'Approved' AND (q.tech IS NULL OR q.tech = '')
dispatch_unscheduled ==
    {q \in main_quotes : /\ q.customer_id \in MainCustomers
                         /\ q.status = "Approved"
                         /\ (q.tech = NULL \/ q.tech = "")}

\* get_dispatch_data, "scheduled": quotes joined with customers
\* WHERE q.tech IS NOT NULL AND q.tech != '' AND q.status != 'Completed'
dispatch_scheduled ==
    {q \in main_quotes : /\ q.customer_id \in MainCustomers
                         /\ q.tech # NULL /\ q.tech # ""
                         /\ q.status # "Completed"}

\* a job list that keeps completed jobs
get_my_jobs_with_completed(username) ==
    {q \in main_quotes : /\ q.customer_id \in MainCustomers
                         /\ q.tech = username}

\* get_my_jobs: WHERE q.tech = ? AND q.status != 'Completed'
get_my_jobs(username) ==
    {q \in main_quotes : /\ q.customer_id \in MainCustomers
                         /\ q.tech = username
                         /\ q.status # "Completed"}

MainSave ==
    \E c \in MainCustomers, items \in MainItemLists, id \in MainIds :
        \E total \in MainTotalInputs(items) :
            main_save_quote(c, items, total, id)

MainSetStatus ==
    \E id \in MainIds, s \in MainStatusInputs : update_quote_status(id, s)

MainAssign ==
    \E id \in MainIds, t \in MainTechInputs, d \in MainDates :
        assign_job(id, t, d)

MainComplete ==
    \E id \in MainIds, items \in MainItemLists, n \in MainNotes :
        \E total \in MainTotalInputs(items) :
            complete_job(id, items, total, n)

MainNext == MainSave \/ MainSetStatus \/ MainAssign \/ MainComplete

(***************************************************************************)
(* app.py: MockDB and the quote builder callbacks                          *)
(***************************************************************************)
\* most quotes db.quotes holds (seeded and saved)
MaxMockQuotes == 2

\* "Q-<n>" is written n; the builder's "Q-NEW" is written 0
QNEW == 0

\* max(nums + [1000]) + 1
IdFloor == 1000

\* catalogue entries the builder picks from (P-1 and L-1 of MockDB.catalog)
MockCatalog == <<[cat |-> "P-1", price |-> 2800, cost |-> 1200],
                 [cat |-> "L-1", price |-> 185, cost |-> 60]>>

MockCatIds == {MockCatalog[i].cat : i \in 1..Len(MockCatalog)}

\* the value of the "item-qty" input
MockQtyInputs == {1}

\* the value of the "cust-select" dropdown (NULL: nothing selected)
MockCustInputs == {"C-1"}

MockStatuses == {"Draft", "Sent", "Approved", "Scheduled", "Paid"}

\* the "quote-state" store of QuotesView and the blank state of load_quote
BlankState == [id |-> QNEW, status |-> "Draft", items |-> <<>>, total |-> 0,
               customer_id |-> NULL]

mock_total(items) == SumOver(items, "qty", "price")

\* _seed_quotes: ids from Q-1001 on, a random status, random catalogue items,
\* total = sum(qty * price); one seeded quote stands for the nine
SeededQuotes ==
    {[id |-> IdFloor + 1, status |-> st,
      items |-> <<[cat |-> MockCatalog[1].cat, qty |-> 1,
                   price |-> MockCatalog[1].price, cost |-> MockCatalog[1].cost]>>,
      total |-> MockCatalog[1].price, customer_id |-> "C-1"] : st \in MockStatuses}

SetMax(S) == CHOOSE m \in S : \A x \in S : x <= m

MockIndexOf(quotes, id) ==
    {i \in 1..Len(quotes) : quotes[i].id = id}

\* MockDB._next_quote_id
_next_quote_id(quotes) ==
    IF quotes = <<>> THEN IdFloor + 1
    ELSE SetMax({quotes[i].id : i \in 1..Len(quotes)} \cup {IdFloor}) + 1

\* MockDB.save_quote: the normalized dict and db.quotes after the upsert
MockDB_save_quote(quotes, state) ==
    LET withId == IF state.id = QNEW
                  THEN [state EXCEPT !.id = _next_quote_id(quotes)]
                  ELSE state
        data == [withId EXCEPT !.total = mock_total(withId.items)]
        idx == MockIndexOf(quotes, data.id)
    IN  [data |-> data,
         quotes |-> IF idx # {}
                    THEN [quotes EXCEPT ![SetMax(idx) - Cardinality(idx) + 1] = data]
                    ELSE Append(quotes, data)]

\* [i for i in items if i["id"] != item_id]: every item carries its own
\* uuid4, so the filter drops exactly the item at the button's position
WithoutItem(items, pos) ==
    [i \in 1..(Len(items) - 1) |-> IF i < pos THEN items[i] ELSE items[i + 1]]

\* render_quote_ui: the action buttons the page shows for a status
MockActionsShown(status) ==
    {"save"} \cup (CASE status = "Draft" -> {"send"}
                     [] status = "Sent" -> {"approve"}
                     [] status = "Approved" -> {"schedule"}
                     [] status = "Scheduled" -> {"complete"}
                     [] OTHER -> {})

MockActionStatus(action, status) ==
    CASE action = "send" -> "Sent"
      [] action = "approve" -> "Approved"
      [] action = "schedule" -> "Scheduled"
      [] action = "complete" -> "Paid"
      [] OTHER -> status

MockStatusOf(id) ==
    IF MockIndexOf(mock_quotes, id) # {}
    THEN mock_quotes[CHOOSE i \in MockIndexOf(mock_quotes, id) : TRUE].status
    ELSE NULL

\* load_quote, trigger btn-new-quote
load_quote_new ==
    /\ quote_state' = BlankState
    /\ last' = [op |-> "load_quote", id |-> QNEW, arg |-> "new",
                prev |-> NULL, err |-> "none"]
    /\ UNCHANGED <<crud_vars, call_vars, mock_quotes, main_vars, v3_vars, sdb_vars>>

\* load_quote, trigger a cell of the pipeline table
load_quote_row(i) ==
    /\ quote_state' = mock_quotes[i]
    /\ last' = [op |-> "load_quote", id |-> QNEW, arg |-> "row",
                prev |-> NULL, err |-> "none"]
    /\ UNCHANGED <<crud_vars, call_vars, mock_quotes, main_vars, v3_vars, sdb_vars>>

\* update_quote, trigger btn-add-item
update_quote_add(cat_id, qty, cust_id) ==
    LET item == CHOOSE c \in {MockCatalog[i] : i \in 1..Len(MockCatalog)} :
                    c.cat = cat_id
        items == Append(quote_state.items,
                        [cat |-> item.cat, qty |-> qty,
                         price |-> item.price, cost |-> item.cost])
    IN  /\ Len(quote_state.items) < MaxItems
        /\ quote_state' = [quote_state EXCEPT !.customer_id = cust_id,
                                              !.items = items,
                                              !.total = mock_total(items)]
        /\ last' = [op |-> "update_quote", id |-> QNEW, arg |-> "add",
                    prev |-> NULL, err |-> "none"]
        /\ UNCHANGED <<crud_vars, call_vars, mock_quotes, main_vars, v3_vars, sdb_vars>>

\* update_quote, trigger a delete-item button
update_quote_delete(pos, cust_id) ==
    LET items == WithoutItem(quote_state.items, pos)
    IN  /\ quote_state' = [quote_state EXCEPT !.customer_id = cust_id,
                                              !.items = items,
                                              !.total = mock_total(items)]
        /\ last' = [op |-> "update_quote", id |-> QNEW, arg |-> "delete",
                    prev |-> NULL, err |-> "none"]
        /\ UNCHANGED <<crud_vars, call_vars, mock_quotes, main_vars, v3_vars, sdb_vars>>

\* update_quote, trigger an action button (save, send, approve, schedule,
\* complete)
update_quote_action(action, cust_id) ==
    LET state == [quote_state EXCEPT !.customer_id = cust_id,
                                     !.status = MockActionStatus(action, @)]
        saved == MockDB_save_quote(mock_quotes, state)
    IN  /\ action \in MockActionsShown(quote_state.status)
        /\ Len(saved.quotes) <= MaxMockQuotes
        /\ mock_quotes' = saved.quotes
        /\ quote_state' = saved.data
        /\ last' = [op |-> "update_quote", id |-> saved.data.id, arg |-> action,
                    prev |-> MockStatusOf(quote_state.id), err |-> "none"]
        /\ UNCHANGED <<crud_vars, call_vars, main_vars, v3_vars, sdb_vars>>

MockLoad ==
    \/ load_quote_new
    \/ \E i \in 1..Len(mock_quotes) : load_quote_row(i)

MockEdit ==
    \/ \E c \in MockCatIds, q \in MockQtyInputs, cust \in MockCustInputs :
          update_quote_add(c, q, cust)
    \/ \E i \in 1..Len(quote_state.items), cust \in MockCustInputs :
          update_quote_delete(i, cust)

MockAction ==
    \E a \in {"save", "send", "approve", "schedule", "complete"},
       cust \in MockCustInputs : update_quote_action(a, cust)

MockNext == MockLoad \/ MockEdit \/ MockAction

(***************************************************************************)
(* app.py: MockDB.save_quote run by two callbacks at once.  The Flask      *)
(* server behind app.run_server handles each request on its own thread,    *)
(* all threads share the module-level db, and save_quote takes no lock: a  *)
(* thread switch can fall between choosing the id, looking the id up and   *)
(* storing the quote.                                                      *)
(***************************************************************************)
IdleThread == [pc |-> "idle", data |-> {}, idx |-> 0, fresh |-> FALSE]

\* quote-state values the callbacks hand over: an unsaved quote of the
\* builder, or a quote loaded from db.quotes
MockSaveInputs ==
    {[BlankState EXCEPT !.customer_id = "C-1",
                        !.items = [k \in 1..n |->
                                      [cat |-> MockCatalog[2].cat, qty |-> 1,
                                       price |-> MockCatalog[2].price,
                                       cost |-> MockCatalog[2].cost]]] :
        n \in 0..1}
    \cup {mock_quotes[i] : i \in 1..Len(mock_quotes)}

\* data = state.copy(); the id of a new quote; the setdefaults and the total
thread_assign_id(t, state) ==
    /\ mock_calls[t].pc = "idle"
    /\ Len(mock_quotes) < MaxMockQuotes
    /\ mock_calls' = [mock_calls EXCEPT ![t] =
          [pc |-> "normalized",
           data |-> {[state EXCEPT
                        !.id = IF state.id = QNEW
                               THEN _next_quote_id(mock_quotes) ELSE @,
                        !.total = mock_total(state.items)]},
           idx |-> 0,
           fresh |-> state.id = QNEW]]
    /\ UNCHANGED <<v3_calls, crud_calls, edit_mode_store, crud_vars, main_vars,
                   mock_vars, v3_vars, sdb_vars, last>>

\* idx = next((i for i, q in enumerate(self.quotes) if q["id"] == data["id"]),
\*            None)          (0 stands for None)
thread_find(t) ==
    LET call == mock_calls[t]
        data == CHOOSE d \in call.data : TRUE
        hits == MockIndexOf(mock_quotes, data.id)
    IN  /\ call.pc = "normalized"
        /\ mock_calls' = [mock_calls EXCEPT ![t] =
              [call EXCEPT !.pc = "found",
                           !.idx = IF hits = {} THEN 0
                                   ELSE CHOOSE i \in hits :
                                            \A j \in hits : i <= j]]
        /\ UNCHANGED <<v3_calls, crud_calls, edit_mode_store, crud_vars,
                       main_vars, mock_vars, v3_vars, sdb_vars, last>>

\* self.quotes[idx] = data, or self.quotes.append(data); return data
thread_store(t) ==
    LET call == mock_calls[t]
        data == CHOOSE d \in call.data : TRUE
    IN  /\ call.pc = "found"
        /\ mock_quotes' = IF call.idx # 0
                          THEN [mock_quotes EXCEPT ![call.idx] = data]
                          ELSE Append(mock_quotes, data)
        /\ mock_calls' = [mock_calls EXCEPT ![t] = IdleThread]
        /\ last' = [op |-> "MockDB.save_quote", id |-> data.id, arg |-> t,
                    prev |-> NULL, err |-> "none"]
        /\ UNCHANGED <<v3_calls, crud_calls, edit_mode_store, crud_vars,
                       main_vars, quote_state, v3_vars, sdb_vars>>

MockRaceCall ==
    \E t \in Callers, state \in MockSaveInputs : thread_assign_id(t, state)

MockRaceStep == \E t \in Callers : thread_find(t) \/ thread_store(t)

MockRaceNext == MockRaceCall \/ MockRaceStep

(***************************************************************************)
(* tradeops_v3_db.py, called by startup_app.py                             *)
(***************************************************************************)
\* cart entries: name, type, cost, price, qty
V3Catalog == <<[name |-> "Capacitor 45/5", type |-> "Part", cost |-> 40,
                price |-> 100, qty |-> 2],
               [name |-> "Warranty visit", type |-> "Labor", cost |-> 40,
                price |-> 0, qty |-> 1]>>

V3ItemLists == CartsOf(V3Catalog) \cup {<<V3Catalog[Len(V3Catalog)]>>}

\* values of str(uuid.uuid4())[:8]
V3Ids == {"0a1b2c3d", "4e5f6a7b"}

\* rows of table customers
V3Customers == {"cust-1", "cust-2"}

\* the outcomes of the "log-outcome" dropdown
V3Outcomes == {"Left VM", "Needs Call", "Won", "Lost"}

\* datetime.now() as a day number, and the dates of the "log-date" picker
V3Today == 20

V3DateInputs == {V3Today + 2}

\* the columns of table quotes as init_db creates it
V3QuotesColumns == {"quote_id", "customer_id", "job_type", "estimator",
                    "status", "created_at", "last_modified_at",
                    "next_followup_date", "followup_status", "total_price",
                    "total_cost", "margin_percent"}

\* sum([i['cost'] * i['qty'] for i in items])
v3_total_cost(items) == SumOver(items, "cost", "qty")

\* sum([i['price'] * i['qty'] for i in items])
v3_total_price(items) == SumOver(items, "price", "qty")

\* a margin without the factor 100
v3_margin_fraction(total_price, total_cost) ==
    IF total_price > 0
    THEN [num |-> total_price - total_cost, den |-> total_price]
    ELSE [num |-> 0, den |-> 1]

\* ((total_price - total_cost) / total_price * 100) if total_price > 0 else 0,
\* kept as the exact quotient num / den
v3_margin(total_price, total_cost) ==
    IF total_price > 0
    THEN [num |-> (total_price - total_cost) * 100, den |-> total_price]
    ELSE [num |-> 0, den |-> 1]

V3Found(quote_id) == \E q \in v3_quotes : q.quote_id = quote_id

V3StatusOf(quote_id) ==
    IF V3Found(quote_id)
    THEN (CHOOSE q \in v3_quotes : q.quote_id = quote_id).status
    ELSE NULL

V3ItemRows(quote_id, items) ==
    [k \in 1..Len(items) |-> [quote_id |-> quote_id, item |-> items[k]]]

save_new_quote(cust_id, job_type, estimator, items, qid) ==
    LET tc == v3_total_cost(items)
        tp == v3_total_price(items)
        row == [quote_id |-> qid, customer_id |-> cust_id, job_type |-> job_type,
                estimator |-> estimator, status |-> "Open",
                created_at |-> V3Today, last_modified_at |-> V3Today,
                next_followup_date |-> V3Today, followup_status |-> "Needs Call",
                total_price |-> tp, total_cost |-> tc,
                margin_percent |-> v3_margin(tp, tc)]
        ok == ~V3Found(qid)   \* quote_id TEXT PRIMARY KEY
    IN  /\ v3_quotes' = IF ok THEN v3_quotes \cup {row} ELSE v3_quotes
        /\ v3_quote_items' = IF ok THEN v3_quote_items \o V3ItemRows(qid, items)
                             ELSE v3_quote_items
        /\ last' = [op |-> "save_new_quote", id |-> qid, arg |-> "",
                    prev |-> V3StatusOf(qid),
                    err |-> IF ok THEN "none" ELSE "IntegrityError"]
        /\ UNCHANGED <<crud_vars, call_vars, main_vars, mock_vars, sdb_vars>>

\* a variant whose UPDATE also writes customer_id
update_existing_quote_sets_customer(quote_id, cust_id, job_type, estimator, items) ==
    LET tc == v3_total_cost(items)
        tp == v3_total_price(items)
    IN  /\ v3_quotes' =
             {IF q.quote_id = quote_id
              THEN [q EXCEPT !.total_price = tp, !.total_cost = tc,
                             !.margin_percent = v3_margin(tp, tc),
                             !.last_modified_at = V3Today,
                             !.job_type = job_type, !.estimator = estimator,
                             !.customer_id = cust_id]
              ELSE q : q \in v3_quotes}
        /\ v3_quote_items' =
             DeleteRows(v3_quote_items, quote_id) \o V3ItemRows(quote_id, items)
        /\ last' = [op |-> "update_existing_quote", id |-> quote_id,
                    arg |-> cust_id, prev |-> V3StatusOf(quote_id),
                    err |-> "none"]
        /\ UNCHANGED <<crud_vars, call_vars, main_vars, mock_vars, sdb_vars>>

update_existing_quote(quote_id, cust_id, job_type, estimator, items) ==
    LET tc == v3_total_cost(items)
        tp == v3_total_price(items)
    IN  /\ v3_quotes' =
             {IF q.quote_id = quote_id
              THEN [q EXCEPT !.total_price = tp, !.total_cost = tc,
                             !.margin_percent = v3_margin(tp, tc),
                             !.last_modified_at = V3Today,
                             !.job_type = job_type, !.estimator = estimator]
              ELSE q : q \in v3_quotes}
        /\ v3_quote_items' =
             DeleteRows(v3_quote_items, quote_id) \o V3ItemRows(quote_id, items)
        /\ last' = [op |-> "update_existing_quote", id |-> quote_id,
                    arg |-> cust_id, prev |-> V3StatusOf(quote_id),
                    err |-> "none"]
        /\ UNCHANGED <<crud_vars, call_vars, main_vars, mock_vars, sdb_vars>>

\* get_followup_queue: WHERE q.status = 'Open', joined with customers (the
\* ORDER BY is left to the reader of the set)
v3_get_followup_queue ==
    {q \in v3_quotes : q.status = "Open" /\ q.customer_id \in V3Customers}

\* UPDATE quotes SET followup_status = ?, next_followup_date = ?,
\*                   last_contact_at = ? WHERE quote_id = ?
log_interaction(quote_id, new_status, next_date) ==
    LET columns == {"followup_status", "next_followup_date", "last_contact_at"}
        ok == columns \subseteq V3QuotesColumns
    IN  /\ v3_quotes' =
             IF ok
             THEN {IF q.quote_id = quote_id
                   THEN [q EXCEPT !.followup_status = new_status,
                                  !.next_followup_date = next_date]
                   ELSE q : q \in v3_quotes}
             ELSE v3_quotes
        /\ last' = [op |-> "log_interaction", id |-> quote_id, arg |-> new_status,
                    prev |-> V3StatusOf(quote_id),
                    err |-> IF ok THEN "none" ELSE "OperationalError"]
        /\ UNCHANGED <<crud_vars, call_vars, v3_quote_items, main_vars, mock_vars, sdb_vars>>

\* handle_followup, trigger btn-save-log: a selected row of the follow-up
\* table and a next date are required
handle_followup_save(row, outcome, next_date) ==
    /\ row \in v3_get_followup_queue
    /\ log_interaction(row.quote_id, outcome, next_date)

\* dcc.Store(id="edit-mode-store", data={"mode": "new", "qid": None})
NewMode == [mode |-> "new", qid |-> NULL]

\* handle_history_actions, trigger btn-load-edit on a selected history row:
\* the quote is loaded into the builder and the store names it
handle_history_actions(row) ==
    /\ edit_mode_store' = [mode |-> "edit", qid |-> row.quote_id]
    /\ last' = [op |-> "btn-load-edit", id |-> row.quote_id, arg |-> "",
                prev |-> row.status, err |-> "none"]
    /\ UNCHANGED <<v3_calls, crud_calls, mock_calls, crud_vars, main_vars,
                   mock_vars, v3_vars, sdb_vars>>

\* startup_app.save_quote (btn-finalize): its only output is "save-msg"; qid
\* is the fresh uuid save_new_quote would draw
startup_save_quote(cust, jtype, est, cart, qid) ==
    IF cust = "" \/ jtype = "" \/ est = "" \/ cart = <<>>
    THEN \* "Please complete all required fields before saving"
         /\ last' = [op |-> "save_quote", id |-> NULL, arg |-> cust,
                     prev |-> NULL, err |-> "missing"]
         /\ UNCHANGED <<crud_vars, call_vars, main_vars, mock_vars, v3_vars,
                        sdb_vars>>
    ELSE IF edit_mode_store.mode = "edit" /\ edit_mode_store.qid # NULL
         THEN update_existing_quote(edit_mode_store.qid, cust, jtype, est, cart)
         ELSE save_new_quote(cust, jtype, est, cart, qid)

V3Save ==
    /\ edit_mode_store.mode # "edit"
    /\ \E c \in V3Customers, items \in V3ItemLists, qid \in V3Ids :
           startup_save_quote(c, "Service", "Elliott", items, qid)

\* startup_app.save_quote passes the quote_id of the quote loaded for editing
V3Update ==
    /\ edit_mode_store.mode = "edit"
    /\ \E c \in V3Customers, items \in V3ItemLists, qid \in V3Ids :
           startup_save_quote(c, "Install", "Sarah", items, qid)

V3LoadEdit == \E row \in v3_quotes : handle_history_actions(row)

V3Followup ==
    \E row \in v3_quotes, o \in V3Outcomes, d \in V3DateInputs :
        handle_followup_save(row, o, d)

V3Next == V3Save \/ V3Update \/ V3Followup \/ V3LoadEdit

(***************************************************************************)
(* tradeops_v3_db.py: update_existing_quote run by two callbacks at once,  *)
(* one statement per step.  Each call has its own sqlite connection: its   *)
(* first write takes the database write lock (a second writer waits in the *)
(* busy handler), its writes are private until commit.                     *)
(***************************************************************************)
IdleCall == [pc |-> "idle", quote_id |-> NULL, items |-> <<>>,
             tx_quotes |-> {}, tx_items |-> <<>>, seq |-> 0, raced |-> FALSE]

\* the positions at which a connection holds the write lock
WriterPcs == {"updated", "deleted", "inserted"}

V3LockFree == \A c \in Callers : v3_calls[c].pc \notin WriterPcs

V3LastSeq == SetMax({v3_calls[c].seq : c \in Callers})

\* conn = sqlite3.connect(DB_NAME), totals computed from the arguments
call_connect(c, quote_id, items) ==
    /\ v3_calls[c].pc = "idle"
    /\ v3_calls' = [v3_calls EXCEPT ![c] =
                       [IdleCall EXCEPT
                           !.pc = "connected",
                           !.quote_id = quote_id,
                           !.items = items,
                           !.raced = \E d \in Callers \ {c} :
                                        v3_calls[d].pc \notin {"idle", "done"}]]
    /\ UNCHANGED <<crud_calls, mock_calls, edit_mode_store, crud_vars,
                       main_vars, mock_vars, v3_vars, sdb_vars, last>>

\* UPDATE quotes SET total_price=?, ... WHERE quote_id=?  (begins the
\* transaction)
call_update(c) ==
    LET call == v3_calls[c]
        tc == v3_total_cost(call.items)
        tp == v3_total_price(call.items)
    IN  /\ call.pc = "connected"
        /\ V3LockFree
        /\ v3_calls' = [v3_calls EXCEPT ![c] =
             [call EXCEPT
                !.pc = "updated",
                !.tx_items = v3_quote_items,
                !.tx_quotes =
                   {IF q.quote_id = call.quote_id
                    THEN [q EXCEPT !.total_price = tp, !.total_cost = tc,
                                   !.margin_percent = v3_margin(tp, tc),
                                   !.last_modified_at = V3Today,
                                   !.job_type = "Install",
                                   !.estimator = "Sarah"]
                    ELSE q : q \in v3_quotes}]]
        /\ UNCHANGED <<crud_calls, mock_calls, edit_mode_store, crud_vars,
                       main_vars, mock_vars, v3_vars, sdb_vars, last>>

\* DELETE FROM quote_items WHERE quote_id=?
call_delete(c) ==
    LET call == v3_calls[c]
    IN  /\ call.pc = "updated"
        /\ v3_calls' = [v3_calls EXCEPT ![c] =
             [call EXCEPT !.pc = "deleted",
                          !.tx_items = DeleteRows(call.tx_items, call.quote_id)]]
        /\ UNCHANGED <<crud_calls, mock_calls, edit_mode_store, crud_vars,
                       main_vars, mock_vars, v3_vars, sdb_vars, last>>

\* for i in items: INSERT INTO quote_items ...
call_insert(c) ==
    LET call == v3_calls[c]
    IN  /\ call.pc = "deleted"
        /\ v3_calls' = [v3_calls EXCEPT ![c] =
             [call EXCEPT !.pc = "inserted",
                          !.tx_items = call.tx_items \o
                                       V3ItemRows(call.quote_id, call.items)]]
        /\ UNCHANGED <<crud_calls, mock_calls, edit_mode_store, crud_vars,
                       main_vars, mock_vars, v3_vars, sdb_vars, last>>

\* conn.commit(); conn.close(); return quote_id
call_commit(c) ==
    LET call == v3_calls[c]
    IN  /\ call.pc = "inserted"
        /\ v3_quotes' = call.tx_quotes
        /\ v3_quote_items' = call.tx_items
        /\ v3_calls' = [v3_calls EXCEPT ![c] =
             [call EXCEPT !.pc = "done", !.seq = V3LastSeq + 1,
                          !.tx_quotes = {}, !.tx_items = <<>>]]
        /\ last' = [op |-> "update_existing_quote", id |-> call.quote_id,
                    arg |-> c, prev |-> V3StatusOf(call.quote_id),
                    err |-> "none"]
        /\ UNCHANGED <<crud_calls, mock_calls, edit_mode_store, crud_vars,
                       main_vars, mock_vars, sdb_vars>>

\* a first quote, saved before the two edits start
RaceSave ==
    /\ v3_quotes = {}
    /\ V3Save

RaceConnect ==
    \E c \in Callers, row \in v3_quotes, items \in V3ItemLists :
        call_connect(c, row.quote_id, items)

RaceStep ==
    \E c \in Callers :
        call_update(c) \/ call_delete(c) \/ call_insert(c) \/ call_commit(c)

V3RaceNext == RaceSave \/ RaceConnect \/ RaceStep

(***************************************************************************)
(* crud.py over models.py, schemas.py and database.py                      *)
(***************************************************************************)
CrudCatalog == <<[description |-> "Capacitor", qty |-> 2, unit_cost |-> 40,
                  unit_price |-> 100],
                 [description |-> "Goodwill discount", qty |-> 1,
                  unit_cost |-> 0, unit_price |-> -250]>>

CrudItemLists == CartsOf(CrudCatalog) \cup {<<CrudCatalog[Len(CrudCatalog)]>>}

\* the fields _recalc_quote_totals assigns, for a quote whose line_items
\* collection is the given list
_recalc_quote_totals(line_items) ==
    LET total_cost == SumOver(line_items, "unit_cost", "qty")
        total_price == SumOver(line_items, "unit_price", "qty")
    IN  [total_cost |-> total_cost,
         total_price |-> total_price,
         margin_percent |->
             IF total_price > 0
             THEN [num |-> (total_price - total_cost) * 100, den |-> total_price]
             ELSE [num |-> 0, den |-> 1]]

\* sessionmaker(bind=engine, autoflush=False, autocommit=False)
SessionAutoflush == FALSE

\* values of models._uuid()
CrudIds == {"6f1c-quote", "a2b7-quote"}

CrudAccounts == {"acct-1"}

\* schemas.QuoteCreate instances: location_id, customer_id, title,
\* selling_tech_id, line_items (the class declares no status)
CrudCreateInputs ==
    {[location_id |-> "loc-1", customer_id |-> "cust-1",
      title |-> "System replacement", selling_tech_id |-> NULL,
      line_items |-> items] : items \in CrudItemLists}

\* schemas.QuoteUpdate instances: every field optional; a record without the
\* line_items field stands for line_items = None
CrudUpdateInputs ==
    {[title |-> t, status |-> st, line_items |-> items] :
        t \in {NULL, "Revised"}, st \in {NULL, "sent"}, items \in CrudItemLists}
    \cup {[title |-> t, status |-> st] :
             t \in {NULL, "Revised"}, st \in {NULL, "sent"}}

\* data.line_items is not None
HasLineItems(data) == "line_items" \in DOMAIN data

CrudFound(quote_id) == \E q \in crud_quotes : q.id = quote_id

CrudStatusOf(quote_id) ==
    IF CrudFound(quote_id)
    THEN (CHOOSE q \in crud_quotes : q.id = quote_id).status
    ELSE NULL

CrudItemRows(quote_id, line_items) ==
    [k \in 1..Len(line_items) |-> [quote_id |-> quote_id, item |-> line_items[k]]]

CrudItemsOf(rows, quote_id) ==
    LET mine == SelectRows(rows, quote_id)
    IN  [k \in 1..Len(mine) |-> mine[k].item]

\* quote.line_items, first read inside the call: a SELECT over the rows the
\* transaction has written so far; objects still pending in the session are
\* flushed first only when the session autoflushes
LazyLoadLineItems(rows, pending, quote_id) ==
    IF SessionAutoflush
    THEN CrudItemsOf(rows \o pending, quote_id)
    ELSE CrudItemsOf(rows, quote_id)

create_quote(account_id, data, new_id) ==
    IF "status" \notin DOMAIN data
    THEN \* data.status raises before the Quote object exists
         /\ last' = [op |-> "create_quote", id |-> new_id, arg |-> "",
                     prev |-> CrudStatusOf(new_id), err |-> "AttributeError"]
         /\ UNCHANGED <<crud_vars, call_vars, main_vars, mock_vars, v3_vars,
                        sdb_vars>>
    ELSE LET pending == CrudItemRows(new_id, data.line_items)
             seen == LazyLoadLineItems(crud_line_items, pending, new_id)
             r == _recalc_quote_totals(seen)
             quote == [id |-> new_id, account_id |-> account_id,
                       title |-> data.title,
                       status |-> IF data.status = NULL THEN "draft"
                                  ELSE data.status,
                       total_price |-> r.total_price,
                       total_cost |-> r.total_cost,
                       margin_percent |-> r.margin_percent]
             ok == ~CrudFound(new_id)
         IN  /\ crud_quotes' = IF ok THEN crud_quotes \cup {quote}
                               ELSE crud_quotes
             /\ crud_line_items' = IF ok THEN crud_line_items \o pending
                                   ELSE crud_line_items
             /\ last' = [op |-> "create_quote", id |-> new_id, arg |-> "",
                         prev |-> CrudStatusOf(new_id),
                         err |-> IF ok THEN "none" ELSE "IntegrityError"]
             /\ UNCHANGED <<call_vars, main_vars, mock_vars, v3_vars, sdb_vars>>

crud_update_quote(quote_id, data) ==
    IF ~CrudFound(quote_id)
    THEN \* return None
         /\ last' = [op |-> "update_quote", id |-> quote_id, arg |-> "None",
                     prev |-> NULL, err |-> "none"]
         /\ UNCHANGED <<crud_vars, call_vars, main_vars, mock_vars, v3_vars,
                        sdb_vars>>
    ELSE LET quote == CHOOSE q \in crud_quotes : q.id = quote_id
             q1 == [quote EXCEPT
                      !.title = IF data.title # NULL THEN data.title ELSE @,
                      !.status = IF data.status # NULL THEN data.status ELSE @]
             deleted == DeleteRows(crud_line_items, quote_id)
             pending == CrudItemRows(quote_id, data.line_items)
             r == _recalc_quote_totals(
                      LazyLoadLineItems(deleted, pending, quote_id))
             q2 == IF ~HasLineItems(data) THEN q1
                   ELSE [q1 EXCEPT !.total_price = r.total_price,
                                   !.total_cost = r.total_cost,
                                   !.margin_percent = r.margin_percent]
         IN  /\ crud_quotes' = (crud_quotes \ {quote}) \cup {q2}
             /\ crud_line_items' = IF ~HasLineItems(data)
                                   THEN crud_line_items
                                   ELSE deleted \o pending
             /\ last' = [op |-> "update_quote", id |-> quote_id,
                         arg |-> IF ~HasLineItems(data) THEN "header"
                                 ELSE "line_items",
                         prev |-> quote.status, err |-> "none"]
             /\ UNCHANGED <<call_vars, main_vars, mock_vars, v3_vars, sdb_vars>>

CrudCreate ==
    \E a \in CrudAccounts, data \in CrudCreateInputs, id \in CrudIds :
        create_quote(a, data, id)

CrudUpdate ==
    \E id \in CrudIds, data \in CrudUpdateInputs : crud_update_quote(id, data)

CrudNext == CrudCreate \/ CrudUpdate

(***************************************************************************)
(* crud.py: update_quote run by two requests at once, one statement per    *)
(* step.  Each request has its own Session on the PostgreSQL server of     *)
(* database.py, at the server's default isolation level (read committed):  *)
(* every statement sees the rows committed when it starts, a DELETE waits  *)
(* for a row another open transaction has deleted and skips it once that   *)
(* transaction has committed, and rows committed after the DELETE started  *)
(* are not among its targets.                                              *)
(***************************************************************************)
IdleSession == [pc |-> "idle", quote_id |-> NULL, items |-> <<>>,
                loaded |-> {}, snapshot |-> {}, deleted |-> {},
                assigned |-> {}]

\* the positions at which a session holds locks on the rows it deleted
RowLockPcs == {"deleted", "recalced"}

\* the primary key of QuoteLineItem (models._uuid) tells the rows of one
\* request from rows of equal content
SessionRows(c, quote_id, line_items) ==
    [k \in 1..Len(line_items) |->
        [quote_id |-> quote_id, item |-> line_items[k], id |-> <<c, k>>]]

RowsOfQuote(rows, quote_id) ==
    {rows[k] : k \in {i \in 1..Len(rows) : rows[i].quote_id = quote_id}}

RemoveRows(rows, gone) == SelectSeq(rows, LAMBDA r : r \notin gone)

\* quote = db.query(models.Quote).filter(models.Quote.id == quote_id).first()
sess_query(c, quote, data) ==
    /\ crud_calls[c].pc = "idle"
    /\ crud_calls' = [crud_calls EXCEPT ![c] =
                         [IdleSession EXCEPT !.pc = "loaded",
                                             !.quote_id = quote.id,
                                             !.items = data.line_items,
                                             !.loaded = {quote}]]
    /\ UNCHANGED <<v3_calls, mock_calls, edit_mode_store, crud_vars, main_vars,
                       mock_vars, v3_vars,
                   sdb_vars, last>>

\* db.query(models.QuoteLineItem).filter(...).delete(): the statement starts
\* and finds its target rows
sess_delete_begin(c) ==
    LET s == crud_calls[c]
    IN  /\ s.pc = "loaded"
        /\ crud_calls' = [crud_calls EXCEPT ![c] =
              [s EXCEPT !.pc = "deleting",
                        !.snapshot = RowsOfQuote(crud_line_items, s.quote_id)]]
        /\ UNCHANGED <<v3_calls, mock_calls, edit_mode_store, crud_vars, main_vars,
                       mock_vars, v3_vars,
                       sdb_vars, last>>

\* the DELETE statement ends once no target row is locked by another open
\* transaction; it deletes the target rows that still exist
sess_delete_end(c) ==
    LET s == crud_calls[c]
    IN  /\ s.pc = "deleting"
        /\ \A d \in Callers \ {c} :
               crud_calls[d].pc \in RowLockPcs
                   => crud_calls[d].deleted \cap s.snapshot = {}
        /\ crud_calls' = [crud_calls EXCEPT ![c] =
              [s EXCEPT !.pc = "deleted",
                        !.deleted = s.snapshot \cap
                                    RowsOfQuote(crud_line_items, s.quote_id)]]
        /\ UNCHANGED <<v3_calls, mock_calls, edit_mode_store, crud_vars, main_vars,
                       mock_vars, v3_vars,
                       sdb_vars, last>>

\* the db.add loop, then _recalc_quote_totals(quote): quote.line_items is
\* loaded by a SELECT inside the transaction
sess_recalc(c) ==
    LET s == crud_calls[c]
        pending == SessionRows(c, s.quote_id, s.items)
        seen == LazyLoadLineItems(RemoveRows(crud_line_items, s.deleted),
                                  pending, s.quote_id)
    IN  /\ s.pc = "deleted"
        /\ crud_calls' = [crud_calls EXCEPT ![c] =
              [s EXCEPT !.pc = "recalced",
                        !.assigned = {_recalc_quote_totals(seen)}]]
        /\ UNCHANGED <<v3_calls, mock_calls, edit_mode_store, crud_vars, main_vars,
                       mock_vars, v3_vars,
                       sdb_vars, last>>

\* db.commit(): the flush inserts the pending line items and updates the
\* columns of the quote whose value differs from the loaded one
sess_commit(c) ==
    LET s == crud_calls[c]
        was == CHOOSE q \in s.loaded : TRUE
        r == CHOOSE t \in s.assigned : TRUE
        cur == CHOOSE q \in crud_quotes : q.id = s.quote_id
        new == [cur EXCEPT
                  !.total_price = IF r.total_price # was.total_price
                                  THEN r.total_price ELSE @,
                  !.total_cost = IF r.total_cost # was.total_cost
                                 THEN r.total_cost ELSE @,
                  !.margin_percent = IF r.margin_percent # was.margin_percent
                                     THEN r.margin_percent ELSE @]
    IN  /\ s.pc = "recalced"
        /\ crud_quotes' = (crud_quotes \ {cur}) \cup {new}
        /\ crud_line_items' = RemoveRows(crud_line_items, s.deleted) \o
                              SessionRows(c, s.quote_id, s.items)
        /\ crud_calls' = [crud_calls EXCEPT ![c] =
              [s EXCEPT !.pc = "done", !.loaded = {}, !.snapshot = {},
                        !.deleted = {}, !.assigned = {}]]
        /\ last' = [op |-> "update_quote", id |-> s.quote_id, arg |-> c,
                    prev |-> cur.status, err |-> "none"]
        /\ UNCHANGED <<v3_calls, mock_calls, edit_mode_store, main_vars,
                       mock_vars, v3_vars, sdb_vars>>

CrudRaceQuery ==
    \E c \in Callers, quote \in crud_quotes, data \in CrudUpdateInputs :
        /\ HasLineItems(data)
        /\ data.title = NULL
        /\ data.status = NULL
        /\ sess_query(c, quote, data)

CrudRaceStep ==
    \E c \in Callers :
        \/ sess_delete_begin(c)
        \/ sess_delete_end(c)
        \/ sess_recalc(c)
        \/ sess_commit(c)

CrudRaceNext == CrudRaceQuery \/ CrudRaceStep

(***************************************************************************)
(* startup_db.py                                                           *)
(***************************************************************************)
\* item dicts handed to save_quote; the second one has no 'name' key
SdbCatalog == <<[name |-> "Breaker 20A", type |-> "Part", cost |-> 40,
                 price |-> 100, qty |-> 2],
                [type |-> "Labor", cost |-> 35, price |-> 95, qty |-> 1]>>

SdbItemLists == CartsOf(SdbCatalog)

SdbIds == {"9f8e7d6c", "5b4a3c2d"}

SdbClients == {"Acme Electric"}

SdbOutcomes == {"Left VM", "Won", "Lost"}

\* datetime.now() as a day number
SdbToday == 20

\* timedelta(days=3)
FollowupDays == 3

SdbDateInputs == {SdbToday, SdbToday + 7}

SdbKey(quote_id, version) ==
    \E q \in sdb_quotes : q.quote_id = quote_id /\ q.version = version

SdbStatusOf(quote_id) ==
    IF \E q \in sdb_quotes : q.quote_id = quote_id
    THEN (CHOOSE q \in sdb_quotes : q.quote_id = quote_id).status
    ELSE NULL

\* the item keys first read by the INSERT INTO quote_items (cost, price and
\* qty are read before, by the sums)
SdbItemKeys == {"name", "type"}

\* ((total_price - total_cost) / total_price * 100) if total_price > 0 else 0
sdb_margin(total_price, total_cost) ==
    IF total_price > 0
    THEN [num |-> (total_price - total_cost) * 100, den |-> total_price]
    ELSE [num |-> 0, den |-> 1]

RECURSIVE SdbInserted(_)
\* the items whose INSERT has been run and committed when the loop ends or
\* raises KeyError
SdbInserted(items) ==
    IF items = <<>> \/ ~(SdbItemKeys \subseteq DOMAIN items[1]) THEN <<>>
    ELSE <<items[1]>> \o SdbInserted(Tail(items))

\* save_quote: every run_query opens its own connection and commits
sdb_save_quote(client, job_type, estimator, items, q_id) ==
    LET total_cost == SumOver(items, "cost", "qty")
        total_price == SumOver(items, "price", "qty")
        margin == sdb_margin(total_price, total_cost)
        row == [quote_id |-> q_id, version |-> 1, client_name |-> client,
                job_type |-> job_type, estimator |-> estimator,
                status |-> "Open", created_at |-> SdbToday,
                last_contact_at |-> SdbToday,
                next_followup_date |-> SdbToday + FollowupDays,
                followup_status |-> "Needs Call", total_price |-> total_price,
                total_cost |-> total_cost, margin_percent |-> margin]
        header == ~SdbKey(q_id, 1)   \* PRIMARY KEY (quote_id, version)
        done == SdbInserted(items)
    IN  /\ sdb_quotes' = IF header THEN sdb_quotes \cup {row} ELSE sdb_quotes
        /\ sdb_quote_items' =
             IF header
             THEN sdb_quote_items \o
                  [k \in 1..Len(done) |->
                      [quote_id |-> q_id, version |-> 1, item |-> done[k]]]
             ELSE sdb_quote_items
        /\ last' = [op |-> "save_quote", id |-> q_id, arg |-> "",
                    prev |-> SdbStatusOf(q_id),
                    err |-> IF ~header THEN "IntegrityError"
                            ELSE IF Len(done) < Len(items) THEN "KeyError"
                            ELSE "none"]
        /\ UNCHANGED <<crud_vars, call_vars, main_vars, mock_vars, v3_vars>>

\* get_followup_queue: WHERE status = 'Open' AND next_followup_date <= today
sdb_get_followup_queue ==
    {q \in sdb_quotes : q.status = "Open" /\ q.next_followup_date <= SdbToday}

update_followup(quote_id, version, new_status, next_date_str) ==
    /\ sdb_quotes' =
         {IF q.quote_id = quote_id /\ q.version = version
          THEN [q EXCEPT !.followup_status = new_status,
                         !.next_followup_date = next_date_str,
                         !.last_contact_at = SdbToday]
          ELSE q : q \in sdb_quotes}
    /\ last' = [op |-> "update_followup", id |-> quote_id, arg |-> new_status,
                prev |-> SdbStatusOf(quote_id), err |-> "none"]
    /\ UNCHANGED <<crud_vars, call_vars, sdb_quote_items, main_vars, mock_vars, v3_vars>>

SdbSave ==
    \E c \in SdbClients, items \in SdbItemLists, q_id \in SdbIds :
        sdb_save_quote(c, "Service", "Elliott", items, q_id)

SdbFollowup ==
    \E q_id \in SdbIds, o \in SdbOutcomes, d \in SdbDateInputs :
        update_followup(q_id, 1, o, d)

SdbNext == SdbSave \/ SdbFollowup

(***************************************************************************)
(* Initial state and specifications                                        *)
(***************************************************************************)
\* empty database files; the in-memory MockDB starts with its seeded quotes
InitStores(seeded) ==
    /\ main_quotes = {}
    /\ mock_quotes = seeded
    /\ quote_state = BlankState
    /\ v3_quotes = {}
    /\ v3_quote_items = <<>>
    /\ v3_calls = [c \in Callers |-> IdleCall]
    /\ crud_calls = [c \in Callers |-> IdleSession]
    /\ mock_calls = [t \in Callers |-> IdleThread]
    /\ edit_mode_store = NewMode
    /\ sdb_quotes = {}
    /\ sdb_quote_items = <<>>
    /\ last = NoCall

\* Base.metadata.create_all on an empty database
CrudTablesEmpty ==
    /\ crud_quotes = {}
    /\ crud_line_items = <<>>

\* the database server of DATABASE_URL already holding a quote with its line
\* items and matching totals, in status draft or sent
CrudTablesStored ==
    \E id \in CrudIds, items \in CrudItemLists \ {<<>>}, st \in {"draft", "sent"} :
        LET r == _recalc_quote_totals(items)
        IN  /\ crud_quotes = {[id |-> id, account_id |-> "acct-1",
                               title |-> "System replacement", status |-> st,
                               total_price |-> r.total_price,
                               total_cost |-> r.total_cost,
                               margin_percent |-> r.margin_percent]}
            /\ crud_line_items = CrudItemRows(id, items)

\* app.py: the seeded quote has any of the statuses _seed draws from
Init == (\E q \in SeededQuotes : InitStores(<<q>>)) /\ CrudTablesEmpty

\* the database programs: one fixed seeding of the unrelated MockDB
InitDb ==
    /\ InitStores(<<CHOOSE q \in SeededQuotes : q.status = "Draft">>)
    /\ CrudTablesEmpty

\* crud.py: the server's tables as found, empty or already populated
InitCrud ==
    /\ InitStores(<<CHOOSE q \in SeededQuotes : q.status = "Draft">>)
    /\ (CrudTablesEmpty \/ CrudTablesStored)

SpecMain == InitDb /\ [][MainNext]_vars

SpecMock == Init /\ [][MockNext]_vars

SpecV3 == InitDb /\ [][V3Next]_vars

SpecSdb == InitDb /\ [][SdbNext]_vars

SpecV3Race == InitDb /\ [][V3RaceNext]_vars

SpecCrud == InitCrud /\ [][CrudNext]_vars

SpecCrudRace == InitCrud /\ [][CrudRaceNext]_vars

SpecMockRace == InitDb /\ [][MockRaceNext]_vars

(***************************************************************************)
(* Claims settled against main.py                                          *)
(***************************************************************************)
MainJobsOf(id) == {r \in main_quotes : r.id = id /\ r.status \in JobStatuses}

\* C1: approving an already Approved, unchanged quote a second time leaves
\* the table as it was, and over every run each quote id carries at most one
\* job row.
C1_IdempotentConversion ==
    /\ [](\A id \in MainIds : Cardinality(MainJobsOf(id)) <= 1)
    /\ [][(/\ last'.op = "update_quote_status"
           /\ last'.arg = "Approved"
           /\ last'.prev = "Approved")
          => main_quotes' = main_quotes]_vars

C1_Witness ==
    /\ last.op = "update_quote_status"
    /\ last.arg = "Approved"
    /\ last.prev = "Approved"
    /\ Cardinality(MainJobsOf(last.id)) = 1
    /\ Cardinality(main_quotes) = 2

C4_TotalsInvariant ==
    \A r \in main_quotes : r.total = main_total(r.items)

JobRank(status) ==
    CASE status = "Approved" -> 1
      [] status = "Scheduled" -> 2
      [] status = "In Progress" -> 3
      [] status = "Completed" -> 4
      [] OTHER -> 0

\* C5: a job's status never decreases in the order New/Approved, Scheduled,
\* InProgress, Complete; nothing leaves Complete.
C5_JobStatusMonotone ==
    [][\A r \in main_quotes, r2 \in main_quotes' :
          (r.id = r2.id /\ r.status \in JobStatuses)
             => JobRank(r2.status) >= JobRank(r.status)]_vars

\* C10: set_status on an absent quote id fails with NotFoundError and
\* changes nothing; on an existing quote it sets the status given.
C10_SetStatusNotFound ==
    [][last'.op = "update_quote_status"
       => IF ~MainFound(last'.id)
          THEN last'.err = "NotFoundError" /\ main_quotes' = main_quotes
          ELSE \A r \in main_quotes' :
                  r.id = last'.id => r.status = last'.arg]_vars

\* C11: an assignment whose tech_username is not an existing user of role
\* tech fails with InvalidAssignmentError and leaves the job unchanged.
MainTechUsers == {u.username : u \in {v \in MainUsers : v.role = "tech"}}

C11_AssignRejectsNonTech ==
    [][(last'.op = "assign_job" /\ last'.arg \notin MainTechUsers) =>
          (last'.err = "InvalidAssignmentError" /\ main_quotes' = main_quotes)]_vars

\* C13: completing a job stores exactly the final item list, a total
\* recomputed from that list, and the status Completed.
C13_CompleteRecomputesTotal ==
    [][last'.op = "complete_job" =>
          \A r \in main_quotes' :
              r.id = last'.id =>
                  /\ r.items \in MainItemLists
                  /\ r.status = "Completed"
                  /\ r.total = main_total(r.items)]_vars

\* C14: assigning an Approved job records the technician and the date,
\* moves the status to Scheduled, and keeps items, total and notes.
C14_AssignAdvancesToScheduled ==
    [][(last'.op = "assign_job" /\ last'.prev = "Approved") =>
          \A r \in main_quotes :
              r.id = last'.id =>
                  \E d \in MainDates :
                      [r EXCEPT !.tech = last'.arg, !.scheduled_date = d,
                                !.status = "Scheduled"] \in main_quotes']_vars

C14_Witness ==
    /\ last.op = "assign_job" /\ last.prev = "Approved" /\ last.arg = "tech"
    /\ \E r \in main_quotes :
          /\ r.id = last.id /\ r.status = "Scheduled" /\ r.tech = "tech"
          /\ r.scheduled_date \in MainDates
          /\ Len(r.items) = 1 /\ r.total = main_total(r.items)

\* C21: the unscheduled list holds exactly the Approved jobs without a
\* scheduled start, and an assignment takes the job off it.
C21_UnscheduledList ==
    /\ [](\A q \in main_quotes :
            q \in dispatch_unscheduled <=>
                (q.status \in {"New", "Approved"} /\ q.scheduled_date = NULL))
    /\ [][last'.op = "assign_job" =>
            \A q \in dispatch_unscheduled' : q.id # last'.id]_vars

\* C22: the scheduled list holds exactly the jobs with a scheduled start whose
\* status is Scheduled, In Progress or Completed; a completed job stays on it.
C22_ScheduledList ==
    \A q \in main_quotes :
        (q.status = "Completed" /\ q.scheduled_date # NULL)
            => q \in dispatch_scheduled

\* C25: an assignment never fails and always overwrites the job's technician
\* and date, whatever the other jobs of that technician are.
C25_AssignNeverChecksBooking ==
    [][last'.op = "assign_job" =>
          /\ last'.err = "none"
          /\ \A r \in main_quotes :
                r.id = last'.id =>
                    \E r2 \in main_quotes' :
                        /\ r2.id = r.id /\ r2.tech = last'.arg
                        /\ r2.scheduled_date \in MainDates
                        /\ r2.status = "Scheduled"]_vars

\* two jobs of the same technician on the same date, the second one taken
\* over from an earlier assignment
C25_Witness ==
    /\ last.op = "assign_job" /\ last.prev = "Scheduled" /\ last.arg = "tech"
    /\ \E a \in main_quotes, b \in main_quotes :
          /\ a.id # b.id /\ a.id = last.id
          /\ a.tech = "tech" /\ b.tech = "tech"
          /\ a.scheduled_date = b.scheduled_date /\ a.scheduled_date # NULL
          /\ a.status = "Scheduled" /\ b.status = "Scheduled"

\* C27: every quote that assign_job has scheduled and that is not Completed
\* is on the scheduled list and not on the unscheduled list.
C27_AssignedJobsAreListed ==
    \A q \in main_quotes :
        (q.scheduled_date # NULL /\ q.status # "Completed") =>
            (q \in dispatch_scheduled /\ q \notin dispatch_unscheduled)

QuoteStages == {"Draft", "Sent", "Approved", "Declined"}

QuoteMoves == {<<"Draft", "Sent">>, <<"Sent", "Approved">>,
               <<"Sent", "Declined">>}

C15_QuoteStatusForward ==
    [][\A r \in main_quotes, r2 \in main_quotes' :
          (r.id = r2.id /\ r.status \in QuoteStages /\ r2.status \in QuoteStages)
              => (r2.status = r.status \/ <<r.status, r2.status>> \in QuoteMoves)]_vars

(***************************************************************************)
(* Claims settled against app.py                                           *)
(***************************************************************************)
\* statuses of the stepper from Scheduled on: the quote is a scheduled job
MockScheduledOrLater == {"Scheduled", "Paid"}

\* C2: once the job of a quote is Scheduled (or later), saving edited line
\* items of the quote leaves the job's line items and total as they were.
C2_SyncCutoff ==
    [][\A i \in 1..Len(mock_quotes) :
          mock_quotes[i].status \in MockScheduledOrLater
             => \A j \in 1..Len(mock_quotes') :
                   mock_quotes'[j].id = mock_quotes[i].id
                      => /\ mock_quotes'[j].items = mock_quotes[i].items
                         /\ mock_quotes'[j].total = mock_quotes[i].total]_vars


\* C19: no quote is stored without a customer or without at least one item.
C19_RequiredFieldsValidated ==
    \A i \in 1..Len(mock_quotes) :
        /\ mock_quotes[i].customer_id # NULL
        /\ mock_quotes[i].items # <<>>

MockIdsUnique ==
    \A i, j \in 1..Len(mock_quotes) : i # j => mock_quotes[i].id # mock_quotes[j].id

\* C28: no two entries of db.quotes ever share an id, and a save_quote call
\* for a new quote (id absent or Q-NEW) appends its quote and leaves every
\* existing entry as it was, also when two callbacks run at once.
C28_IdsStayUnique ==
    /\ []MockIdsUnique
    /\ [][\A t \in Callers :
             (mock_calls[t].pc = "found" /\ mock_calls[t].fresh
                 /\ mock_calls'[t].pc = "idle")
             => /\ Len(mock_quotes') = Len(mock_quotes) + 1
                /\ \A i \in 1..Len(mock_quotes) :
                       mock_quotes'[i] = mock_quotes[i]]_vars

(***************************************************************************)
(* Claims settled against tradeops_v3_db.py                                *)
(***************************************************************************)
V3ItemsOf(quote_id) ==
    LET rows == SelectRows(v3_quote_items, quote_id)
    IN  [k \in 1..Len(rows) |-> rows[k].item]

\* C7: logging a follow-up with outcome "Won" sets the quote's status to
\* "Approved", and with outcome "Lost" sets it to "Declined".
C7_OutcomeSetsStatus ==
    (last.op = "log_interaction" /\ last.arg \in {"Won", "Lost"}) =>
        /\ last.err = "none"
        /\ V3StatusOf(last.id) = IF last.arg = "Won" THEN "Approved"
                                 ELSE "Declined"

C26_SecondSaveUpdates ==
    /\ []((last.op = "save_new_quote" /\ last.err = "none")
             => edit_mode_store = [mode |-> "edit", qid |-> last.id])
    /\ [][(/\ last.op = "save_new_quote"
           /\ last.err = "none"
           /\ last'.op \in {"save_new_quote", "update_existing_quote"})
          => {q.quote_id : q \in v3_quotes'} = {q.quote_id : q \in v3_quotes}]_vars

\* C29: update_existing_quote leaves customer_id, status, created_at,
\* next_followup_date and followup_status of the quote as they were, whatever
\* customer id it is handed, and leaves every other quote untouched.
C29_UpdateFrame ==
    [][last'.op = "update_existing_quote" =>
         \A q \in v3_quotes :
             IF q.quote_id # last'.id THEN q \in v3_quotes'
             ELSE \E q2 \in v3_quotes' :
                     /\ q2.quote_id = q.quote_id
                     /\ q2.customer_id = q.customer_id
                     /\ q2.status = q.status
                     /\ q2.created_at = q.created_at
                     /\ q2.next_followup_date = q.next_followup_date
                     /\ q2.followup_status = q.followup_status]_vars

\* an edit saved with another customer selected: the quote carries the new
\* job type and estimator and still belongs to its first customer
C29_Witness ==
    /\ last.op = "update_existing_quote"
    /\ \E q \in v3_quotes :
          /\ q.quote_id = last.id
          /\ q.customer_id # last.arg
          /\ q.job_type = "Install"
          /\ q.estimator = "Sarah"
          /\ Len(V3ItemsOf(q.quote_id)) = 2

(***************************************************************************)
(* Claims settled against the concurrent update_existing_quote             *)
(***************************************************************************)
V3Row(quote_id) == CHOOSE q \in v3_quotes : q.quote_id = quote_id

V3LastWriter == CHOOSE c \in Callers : v3_calls[c].seq = V3LastSeq

C17_LogStoresOutcome ==
    (last.op = "log_interaction" /\ V3Found(last.id)) =>
        /\ last.err = "none"
        /\ V3Row(last.id).followup_status = last.arg
        /\ V3Row(last.id).next_followup_date \in V3DateInputs

(***************************************************************************)
(* Claims settled against crud.py                                          *)
(***************************************************************************)
\* C18: after update_quote with a line-item list, the persisted items are a
\* supplied list and the persisted totals are the totals of those items.
C18_UpdateReplacesWholesale ==
    [][(last'.op = "update_quote" /\ last'.arg = "line_items") =>
          LET items == CrudItemsOf(crud_line_items', last'.id)
              q == CHOOSE r \in crud_quotes' : r.id = last'.id
          IN  /\ items \in CrudItemLists
              /\ q.total_price = SumOver(items, "qty", "unit_price")
              /\ q.total_cost = SumOver(items, "qty", "unit_cost")]_vars

\* C20: create_quote without an initial status returns normally and leaves a
\* persisted quote in status draft holding the supplied line items.
C20_CreateDefaultsToDraft ==
    last.op = "create_quote" =>
        /\ last.err = "none"
        /\ CrudFound(last.id)
        /\ CrudStatusOf(last.id) = "draft"
        /\ CrudItemsOf(crud_line_items, last.id) \in CrudItemLists

\* C23: the totals stored on a quote are the totals of the line items that
\* are persisted with it.
C23_TotalsNeverStale ==
    \A q \in crud_quotes :
        LET r == _recalc_quote_totals(CrudItemsOf(crud_line_items, q.id))
        IN  /\ q.total_price = r.total_price
            /\ q.total_cost = r.total_cost
            /\ q.margin_percent = r.margin_percent

\* C24: once two concurrent update_quote requests on one quote have both
\* committed, the persisted line items are the list of one of the two
\* requests, never the items of both together.
C24_ItemsFromOneCall ==
    (\A c \in Callers : crud_calls[c].pc = "done")
        => \E c \in Callers :
               CrudItemsOf(crud_line_items, crud_calls[c].quote_id)
                   = crud_calls[c].items

(***************************************************************************)
(* Claims settled against startup_db.py                                    *)
(***************************************************************************)
\* C6: the follow-up due list never holds a quote whose status is Approved or
\* Declined, nor one whose last logged outcome was Won or Lost.
C6_FollowupExclusion ==
    \A q \in sdb_get_followup_queue :
        /\ q.status \notin {"Approved", "Declined"}
        /\ q.followup_status \notin {"Won", "Lost"}

\* C8: a save_quote that fails leaves no persisted change, and every stored
\* quote header has all the items its totals were computed from.
C8_AllOrNothing ==
    [][(last'.op = "save_quote" /\ last'.err # "none") =>
          (sdb_quotes' = sdb_quotes /\ sdb_quote_items' = sdb_quote_items)]_vars


\* C16: the follow-up list holds every undecided quote, a quote that has
\* just been created included.
C16_DueListHoldsUndecided ==
    \A q \in sdb_quotes : q.status = "Open" => q \in sdb_get_followup_queue

=============================================================================
